---- MODULE Spec2Model ----
(***************************************************************************)
(* macrofactor-cli (src/src/main.rs): one CLI invocation is one action.    *)
(* The state that survives an invocation is the two JSON files of the      *)
(* configuration directory (config.json, last-search.json); `inv` is what  *)
(* the last invocation did: the values its handler bound before it         *)
(* returned, its result, and the requests it sent.                         *)
(*                                                                         *)
(* f64 values are modelled as exact rationals [n, d] in lowest terms, so   *)
(* rounding of the floating-point operations is outside the model.         *)
(***************************************************************************)
EXTENDS Integers, Sequences, FiniteSets, TLC

VARIABLES config, cache, inv

vars == <<config, cache, inv>>

(***************************************************************************)
(* Bounds of the model.                                                    *)
(***************************************************************************)
\* longest result list a search returns
MaxResults == 2
\* calendar dates are 0..MaxDate
MaxDate == 2
\* longest --time string
MaxTimeLen == 4

\* stand-in for usize::MAX (2^64 - 1 exceeds TLC's integers): what
\* 0usize - 1 wraps to when overflow checks are off
UsizeMax == 2147483647

Dates == 0..MaxDate

(***************************************************************************)
(* f64 arithmetic, as exact rationals.                                     *)
(***************************************************************************)
RECURSIVE GCD(_, _)
GCD(a, b) == IF b = 0 THEN a ELSE GCD(b, a % b)

Rat(n, d) == LET g == GCD(n, d) IN [n |-> n \div g, d |-> d \div g]

F(n) == Rat(n, 1)

RMul(x, y) == Rat(x.n * y.n, x.d * y.d)

RDiv(x, y) == Rat(x.n * y.d, x.d * y.n)

(***************************************************************************)
(* Option<T> is a sequence of length at most 1.                            *)
(***************************************************************************)
None == <<>>

Some(x) == <<x>>

\* Option::or_else
OrElse(o, alt) == IF o # None THEN o ELSE alt

\* Option::unwrap_or_else
UnwrapOrElse(o, dflt) == IF o # None THEN o[1] ELSE dflt

\* slice::first
First(s) == IF Len(s) = 0 THEN None ELSE Some(s[1])

(***************************************************************************)
(* The food database the backend searches: SearchFoodResult and            *)
(* FoodServing values.                                                     *)
(***************************************************************************)
FoodServing(desc, amount, grams) ==
    [description |-> desc, amount |-> F(amount), gram_weight |-> F(grams)]

SearchFoodResult(name, cal, pro, carb, fat, dflt, servings) ==
    [name |-> name,
     calories_per_100g |-> F(cal), protein_per_100g |-> F(pro),
     carbs_per_100g |-> F(carb), fat_per_100g |-> F(fat),
     default_serving |-> dflt, servings |-> servings]

Rice ==
    SearchFoodResult("rice", 200, 4, 44, 1,
        Some(FoodServing("bowl", 1, 150)),
        <<FoodServing("tbsp", 1, 15), FoodServing("cup", 1, 160)>>)

Egg ==
    SearchFoodResult("egg", 140, 12, 1, 10,
        None,
        <<FoodServing("large", 1, 50), FoodServing("dozen", 12, 600)>>)

Butter == SearchFoodResult("butter", 700, 1, 2, 80, None, <<>>)

Broth ==
    SearchFoodResult("broth", 50, 3, 6, 2,
        Some(FoodServing("pinch", 1, 0)),
        <<>>)

\* the database in the order the backend ranks it
Database == <<Rice, Egg, Butter, Broth>>

\* the sequences of at most n elements of S
RECURSIVE SeqsUpTo(_, _)
SeqsUpTo(S, n) ==
    IF n = 0 THEN {<<>>}
    ELSE LET shorter == SeqsUpTo(S, n - 1)
         IN shorter \cup {Append(s, x) : s \in {t \in shorter : Len(t) = n - 1}, x \in S}

\* the entries of Database at the positions in `hits`, in database order
RECURSIVE Matching(_, _)
Matching(hits, from) ==
    IF from > Len(Database) THEN <<>>
    ELSE (IF from \in hits THEN <<Database[from]>> ELSE <<>>) \o Matching(hits, from + 1)

\* what a search can return: at most MaxResults foods, in the backend's order
ResultLists ==
    {Matching(hits, 1) : hits \in {h \in SUBSET (1..Len(Database)) : Cardinality(h) <= MaxResults}}

(***************************************************************************)
(* Files of the configuration directory.  A file is absent, holds text     *)
(* that does not parse, or holds a JSON document.                          *)
(***************************************************************************)
Absent == [kind |-> "absent", doc |-> <<>>]

Garbage == [kind |-> "garbage", doc |-> <<>>]

\* serde_json::to_string / to_string_pretty
ToJson(value) == [kind |-> "json", doc |-> <<value>>]

\* fs::read_to_string
ReadToString(file) == IF file.kind = "absent" THEN None ELSE Some(file)

\* serde_json::from_str
FromJson(data) == IF data.kind = "json" THEN Some(data.doc[1]) ELSE None

Tokens == {"tok1", "tok2"}

\* Result<T>: err = "" for Ok
Ok(v) == [err |-> "", val |-> Some(v)]

Err(e) == [err |-> e, val |-> None]

load_config ==
    LET data == ReadToString(config)
    IN IF data = None THEN Err("NotLoggedIn")
       ELSE LET parsed == FromJson(data[1])
            IN IF parsed = None THEN Err("InvalidConfig") ELSE Ok(parsed[1])

save_config(cfg) == ToJson(cfg)

\* a client built with an empty credential when none can be loaded
get_client_lenient ==
    LET c == load_config
    IN IF c.err # "" THEN Ok([refresh_token |-> ""])
       ELSE Ok([refresh_token |-> c.val[1].refresh_token])

get_client ==
    LET c == load_config
    IN IF c.err # "" THEN c ELSE Ok([refresh_token |-> c.val[1].refresh_token])

save_search_cache(results) == ToJson(results)

load_search_cache ==
    LET data == ReadToString(cache)
    IN IF data = None THEN Err("NoSearchCache")
       ELSE LET parsed == FromJson(data[1])
            IN IF parsed = None THEN Err("InvalidSearchCache") ELSE Ok(parsed[1])

(***************************************************************************)
(* --time strings are sequences of characters.                             *)
(***************************************************************************)
Digits == {"1", "2", "7"}

Alphabet == Digits \cup {":", "+", "x"}

DigitVal(c) == IF c = "1" THEN 1 ELSE IF c = "2" THEN 2 ELSE 7

\* str::split(':'): the fields between the separators, empty fields kept
RECURSIVE SplitAcc(_, _, _, _)
SplitAcc(s, i, cur, acc) ==
    IF i > Len(s) THEN Append(acc, cur)
    ELSE IF s[i] = ":" THEN SplitAcc(s, i + 1, <<>>, Append(acc, cur))
    ELSE SplitAcc(s, i + 1, Append(cur, s[i]), acc)

Split(s) == SplitAcc(s, 1, <<>>, <<>>)

RECURSIVE DigitsValue(_, _)
DigitsValue(ds, acc) ==
    IF Len(ds) = 0 THEN acc ELSE DigitsValue(Tail(ds), 10 * acc + DigitVal(Head(ds)))

\* <u32 as FromStr>::from_str: an optional leading '+', then one or more
\* decimal digits (no string of the model is long enough to overflow u32)
ParseU32(field) ==
    LET body == IF Len(field) > 0 /\ Head(field) = "+" THEN Tail(field) ELSE field
    IN IF Len(body) = 0 \/ \E i \in 1..Len(body) : body[i] \notin Digits
       THEN None
       ELSE Some(DigitsValue(body, 0))

\* a time constructor that wraps an out-of-range field instead of refusing it
from_hms_wrapping(hour, minute, second) ==
    Some([hour |-> hour % 24, minute |-> minute % 60, second |-> second % 60])

\* NaiveTime::from_hms_opt
from_hms_opt(hour, minute, second) ==
    IF hour < 24 /\ minute < 60 /\ second < 60
    THEN Some([hour |-> hour, minute |-> minute, second |-> second])
    ELSE None

\* NaiveDate::and_time
and_time(date, t) ==
    [date |-> date, hour |-> t.hour, minute |-> t.minute, second |-> t.second]

\* Local.from_local_datetime, in the zone of the machine: how many instants
\* carry this local date-time.  Date 0 is skipped by the zone as a whole (a
\* date-line change), on date 1 the clock jumps from 02:00 to 03:00, on
\* date 2 it is set back from 13:00 to 12:00.
from_local_datetime(naive) ==
    IF naive.date = 0 THEN "None"
    ELSE IF naive.date = 1 /\ naive.hour = 2 THEN "None"
    ELSE IF naive.date = 2 /\ naive.hour = 12 THEN "Ambiguous"
    ELSE "Single"

\* LocalResult::earliest: an ambiguous local time resolved to its first instant
earliest(naive) == IF from_local_datetime(naive) # "None" THEN Some(naive) ELSE None

\* LocalResult::single
single(naive) == IF from_local_datetime(naive) = "Single" THEN Some(naive) ELSE None

\* Local::now(): the instants the clock can show during a run
Nows ==
    {[date |-> 1, hour |-> 9, minute |-> 15, second |-> 42],
     [date |-> 2, hour |-> 18, minute |-> 40, second |-> 7]}

make_logged_at(date, time, now) ==
    IF time # None
    THEN LET parts == Split(time[1])
         IN IF Len(parts) # 2 THEN Err("BadTimeFormat")
            ELSE LET hour == ParseU32(parts[1])
                     minute == ParseU32(parts[2])
                 IN IF hour = None \/ minute = None THEN Err("ParseIntError")
                    ELSE LET t == from_hms_opt(hour[1], minute[1], 0)
                         IN IF t = None THEN Err("InvalidTime")
                            ELSE LET at == single(and_time(date, t[1]))
                                 IN IF at = None THEN Err("AmbiguousLocalTime")
                                    ELSE Ok(at[1])
    ELSE IF date = now.date THEN Ok(now)
    ELSE LET at == single(and_time(date, from_hms_opt(12, 0, 0)[1]))
         IN IF at = None THEN Err("AmbiguousLocalTime") ELSE Ok(at[1])

(***************************************************************************)
(* What an invocation leaves behind.  A field a handler never reached      *)
(* stays None; err = "" is exit status 0.                                  *)
(***************************************************************************)
Idle ==
    [cmd |-> "", err |-> "", net |-> <<>>, json |-> None,
     food_index |-> None, serving |-> None, quantity |-> None,
     date |-> None, time |-> None,
     food |-> None, food_serving |-> None, logged_at |-> None,
     scale |-> None, printed |-> None,
     now |-> None, range |-> None, entries |-> None,
     response |-> None, body |-> None]

Started(cmd) == [Idle EXCEPT !.cmd = cmd]

Failed(rec, e) == [rec EXCEPT !.err = e]

\* one request of the API client (macro_factor_api) or of the login handler
Request(op, write, payload) == [op |-> op, write |-> write, payload |-> payload]

\* how a request can end: answered, or failed (transport, authorization,
\* server or decode error)
Outcomes == {"ok", "failed"}

\* slice indexing with a zero-based usize index
At(s, i) == s[i + 1]

\* a subtraction that stops at 0 (usize::saturating_sub)
UsizeSubSaturating(a, b, overflow_checks) == IF a >= b THEN Some(a - b) ELSE Some(0)

\* usize subtraction a - b: None is the overflow panic of a build with
\* overflow checks, and without them the result wraps
UsizeSub(a, b, overflow_checks) ==
    IF a >= b THEN Some(a - b)
    ELSE IF overflow_checks THEN None
    ELSE Some(UsizeMax - (b - a) + 1)

FoodIndexArgs == 0..(MaxResults + 1)

\* one more than the longest servings list of the catalogue
MaxServingArg == 3

ServingArgs == 0..MaxServingArg

Quantities == {F(1), Rat(3, 2)}

\* --time arguments of the commands that log a food
TimeArgs == {None, Some(<<"7", ":", "2">>), Some(<<"7", "x">>)}

\* serving selection that looks at the servings list before the default serving
SelectServingListFirst(food, serving, overflow_checks) ==
    IF serving = 1
    THEN Ok(UnwrapOrElse(OrElse(First(food.servings), food.default_serving),
                         FoodServing("100g", 1, 100)))
    ELSE LET idx == UsizeSub(serving, 1, overflow_checks)
         IN IF idx = None THEN Err("Panic")
            ELSE IF idx[1] >= Len(food.servings) THEN Err("InvalidServing")
            ELSE Ok(At(food.servings, idx[1]))

\* serving selection that takes serving index 2 for the first list entry
SelectServingShifted(food, serving, overflow_checks) ==
    IF serving = 1
    THEN Ok(UnwrapOrElse(OrElse(food.default_serving, First(food.servings)),
                         FoodServing("100g", 1, 100)))
    ELSE LET idx == UsizeSub(serving, 2, overflow_checks)
         IN IF idx = None THEN Err("Panic")
            ELSE IF idx[1] >= Len(food.servings) THEN Err("InvalidServing")
            ELSE Ok(At(food.servings, idx[1]))

\* the serving that log-searched-food resolves: Ok(serving), or the error
SelectServing(food, serving, overflow_checks) ==
    IF serving = 1
    THEN Ok(UnwrapOrElse(OrElse(food.default_serving, First(food.servings)),
                         FoodServing("100g", 1, 100)))
    ELSE LET idx == UsizeSub(serving, 1, overflow_checks)
         IN IF idx = None THEN Err("Panic")
            ELSE IF idx[1] >= Len(food.servings) THEN Err("InvalidServing")
            ELSE Ok(At(food.servings, idx[1]))

\* the scale factor with the quantity dividing instead of multiplying
ScaleDividing(food_serving, quantity) ==
    RDiv(food_serving.gram_weight, RMul(F(100), quantity))

\* line 532
Scale(food_serving, quantity) == RMul(RDiv(food_serving.gram_weight, F(100)), quantity)

\* lines 544-547
Macros(food, scale) ==
    [calories |-> RMul(food.calories_per_100g, scale),
     protein |-> RMul(food.protein_per_100g, scale),
     carbs |-> RMul(food.carbs_per_100g, scale),
     fat |-> RMul(food.fat_per_100g, scale)]

\* the index check with the upper bound off by one
IndexRejectedOffByOne(food_index, results) == food_index = 0 \/ food_index >= Len(results)

\* the index check of log-searched-food
IndexRejected(food_index, results) == food_index = 0 \/ food_index > Len(results)

\* log-searched-food from the client call on, the serving chosen
LogSearchedFoodSend(rec, food, food_serving, logged_at) ==
    \E quantity \in Quantities, outcome \in Outcomes :
        LET sent == [rec EXCEPT
                !.quantity = Some(quantity),
                !.net = <<Request("log_searched_food", TRUE,
                                  <<logged_at, food, food_serving, quantity>>)>>]
            scale == Scale(food_serving, quantity)
        IN IF outcome # "ok" THEN inv' = Failed(sent, "ClientError")
           ELSE \E json \in BOOLEAN :
                inv' = [sent EXCEPT
                    !.scale = Some(scale),
                    !.json = Some(json),
                    !.printed = IF json THEN None ELSE Some(Macros(food, scale))]

LogSearchedFoodWith(Times) ==
    LET rec0 == Started("log-searched-food")
        loaded == load_search_cache
    IN /\ UNCHANGED <<config, cache>>
       /\ IF loaded.err # "" THEN inv' = Failed(rec0, loaded.err)
          ELSE \E food_index \in FoodIndexArgs :
            LET results == loaded.val[1]
                rec1 == [rec0 EXCEPT !.food_index = Some(food_index)]
            IN IF IndexRejected(food_index, results)
               THEN inv' = Failed(rec1, "InvalidIndex")
               ELSE \E serving \in ServingArgs, overflow_checks \in BOOLEAN :
                 LET food == At(results, food_index - 1)
                     chosen == SelectServing(food, serving, overflow_checks)
                     rec2 == [rec1 EXCEPT !.food = Some(food), !.serving = Some(serving)]
                     client == get_client
                 IN /\ (serving # 0 => overflow_checks)
                    /\ IF chosen.err # "" THEN inv' = Failed(rec2, chosen.err)
                       ELSE IF client.err # ""
                       THEN inv' = Failed([rec2 EXCEPT !.food_serving = chosen.val],
                                          client.err)
                       ELSE \E date \in Dates, time \in Times, now \in Nows :
                         LET rec3 == [rec2 EXCEPT !.food_serving = chosen.val,
                                          !.date = Some(date), !.time = Some(time),
                                          !.now = IF time = None THEN Some(now) ELSE None]
                             at == make_logged_at(date, time, now)
                         IN /\ (time # None => now = CHOOSE n \in Nows : TRUE)
                            /\ IF at.err # "" THEN inv' = Failed(rec3, at.err)
                               ELSE LogSearchedFoodSend(
                                        [rec3 EXCEPT !.logged_at = at.val],
                                        food, chosen.val[1], at.val[1])

LogSearchedFood == LogSearchedFoodWith(TimeArgs)

(***************************************************************************)
(* login                                                                   *)
(***************************************************************************)
\* what the identity provider can answer: status, body, and whether the
\* body can be read off the connection
Responses ==
    [status : {400}, body : {"EMAIL_NOT_FOUND", "INVALID_PASSWORD"}, readable : BOOLEAN]
    \cup [status : {200}, body : {"{refreshToken:tok1}", "{refreshToken:tok2}"},
          readable : BOOLEAN]
    \cup [status : {200}, body : {"{idToken:id}"}, readable : {TRUE}]

\* body["refreshToken"].as_str() of the parsed body
RefreshTokenOf(body) ==
    IF body = "{refreshToken:tok1}" THEN Some("tok1")
    ELSE IF body = "{refreshToken:tok2}" THEN Some("tok2")
    ELSE None

\* StatusCode::is_success
is_success(status) == status >= 200 /\ status < 300

\* Response::text().await.unwrap_or_default()
TextOrDefault(resp) == IF resp.readable THEN resp.body ELSE ""

\* a status check that takes only server errors for a failure
LoginRejectedServerErrors(resp) == resp.status >= 500

\* the branch of the login handler on the answer's status
LoginRejected(resp) == ~is_success(resp.status)

Login ==
    LET rec0 == [Started("login") EXCEPT
                    !.net = <<Request("signInWithPassword", FALSE, <<>>)>>]
    IN /\ UNCHANGED cache
       /\ \E outcome \in Outcomes :
            IF outcome # "ok"
            THEN /\ inv' = Failed(rec0, "NetworkError")
                 /\ UNCHANGED config
            ELSE \E resp \in Responses :
              LET rec1 == [rec0 EXCEPT !.response = Some(resp)]
              IN IF LoginRejected(resp)
                 THEN /\ inv' = Failed([rec1 EXCEPT !.body = Some(TextOrDefault(resp))],
                                       "LoginFailed")
                      /\ UNCHANGED config
                 ELSE IF ~resp.readable
                 THEN /\ inv' = Failed(rec1, "DecodeError")
                      /\ UNCHANGED config
                 ELSE IF RefreshTokenOf(resp.body) = None
                 THEN /\ inv' = Failed(rec1, "NoRefreshToken")
                      /\ UNCHANGED config
                 ELSE /\ config' = save_config(
                                       [refresh_token |-> RefreshTokenOf(resp.body)[1]])
                      /\ inv' = rec1

(***************************************************************************)
(* search-food                                                             *)
(***************************************************************************)
SearchFood ==
    LET rec0 == Started("search-food")
        client == get_client
    IN /\ UNCHANGED config
       /\ IF client.err # ""
          THEN /\ inv' = Failed(rec0, client.err)
               /\ UNCHANGED cache
          ELSE \E outcome \in Outcomes :
            LET rec1 == [rec0 EXCEPT !.net = <<Request("search_foods", FALSE, <<>>)>>]
            IN IF outcome # "ok"
               THEN /\ inv' = Failed(rec1, "ClientError")
                    /\ UNCHANGED cache
               ELSE \E results \in ResultLists :
                    /\ inv' = [rec1 EXCEPT !.entries = Some(results)]
                    /\ IF Len(results) = 0
                       THEN UNCHANGED cache
                       ELSE cache' = save_search_cache(results)

(***************************************************************************)
(* The commands that read a date range: nutrition, weight, steps.          *)
(***************************************************************************)
\* the dates the backend holds records for
DataDates == {1}

\* get_nutrition / get_weight_entries / get_steps: the records of the
\* dates start..end, in date order
RECURSIVE EntriesBetween(_, _)
EntriesBetween(start, end) ==
    IF end < start THEN <<>>
    ELSE (IF start \in DataDates THEN <<[date |-> start]>> ELSE <<>>)
         \o EntriesBetween(start + 1, end)

\* today()
today(now) == now.date

\* seven_days_ago()
seven_days_ago(now) == today(now) - 7

DateArgs == {None} \cup {Some(d) : d \in Dates}

\* a handler that fills in a missing --start and --end from the clock
\* (start first), then asks the client for the range
RangeCommand(cmd, op, from_last_week) ==
    LET rec0 == Started(cmd)
        client == get_client
    IN /\ UNCHANGED <<config, cache>>
       /\ IF client.err # "" THEN inv' = Failed(rec0, client.err)
          ELSE \E start \in DateArgs, end \in DateArgs, now1 \in Nows, now2 \in Nows :
            LET s == UnwrapOrElse(start, IF from_last_week THEN seven_days_ago(now1)
                                                             ELSE today(now1))
                e == UnwrapOrElse(end, today(now2))
                rec1 == [rec0 EXCEPT
                            !.range = Some(<<s, e>>),
                            !.net = <<Request(op, FALSE, <<s, e>>)>>]
            IN /\ (start = None /\ end = None => now1.date <= now2.date)
               /\ (start # None => now1 = CHOOSE n \in Nows : TRUE)
               /\ (end # None => now2 = CHOOSE n \in Nows : TRUE)
               /\ \E outcome \in Outcomes :
                    IF outcome # "ok" THEN inv' = Failed(rec1, "ClientError")
                    ELSE inv' = [rec1 EXCEPT !.entries = Some(EntriesBetween(s, e))]

Nutrition == RangeCommand("nutrition", "get_nutrition", FALSE)

Weight == RangeCommand("weight", "get_weight_entries", TRUE)

Steps == RangeCommand("steps", "get_steps", TRUE)

(***************************************************************************)
(* The remaining commands: each builds a client and sends one request.     *)
(***************************************************************************)
\* a handler of the shape `get_client()?; client.op(args).await?`
ClientCommand(cmd, op, write, Args) ==
    LET rec0 == Started(cmd)
        client == get_client
    IN /\ UNCHANGED <<config, cache>>
       /\ IF client.err # "" THEN inv' = Failed(rec0, client.err)
          ELSE \E args \in Args, outcome \in Outcomes :
            LET rec1 == [rec0 EXCEPT !.net = <<Request(op, write, args)>>]
            IN inv' = IF outcome # "ok" THEN Failed(rec1, "ClientError") ELSE rec1

Profile == ClientCommand("profile", "get_profile", FALSE, {<<>>})

Goals == ClientCommand("goals", "get_goals", FALSE, {<<>>})

FoodLog ==
    ClientCommand("food-log", "get_food_log", FALSE,
                  {<<d>> : d \in Dates \cup {today(n) : n \in Nows}})

DeleteFood == ClientCommand("delete-food", "delete_food_entry", TRUE, {<<d>> : d \in Dates})

DeleteWeight ==
    ClientCommand("delete-weight", "delete_weight_entry", TRUE, {<<d>> : d \in Dates})

SyncDay == ClientCommand("sync-day", "sync_day", TRUE, {<<d>> : d \in Dates})

LogWeight == ClientCommand("log-weight", "log_weight", TRUE, {<<d>> : d \in Dates})

LogNutrition == ClientCommand("log-nutrition", "log_nutrition", TRUE, {<<d>> : d \in Dates})

LogFoodWith(Times) ==
    LET rec0 == Started("log-food")
        client == get_client
    IN /\ UNCHANGED <<config, cache>>
       /\ IF client.err # "" THEN inv' = Failed(rec0, client.err)
          ELSE \E date \in Dates, time \in Times, now \in Nows :
            LET rec1 == [rec0 EXCEPT !.date = Some(date), !.time = Some(time),
                             !.now = IF time = None THEN Some(now) ELSE None]
                at == make_logged_at(date, time, now)
            IN /\ (time # None => now = CHOOSE n \in Nows : TRUE)
               /\ IF at.err # "" THEN inv' = Failed(rec1, at.err)
                  ELSE \E outcome \in Outcomes :
                    LET rec2 == [rec1 EXCEPT
                                    !.logged_at = at.val,
                                    !.net = <<Request("log_food", TRUE, <<at.val[1]>>)>>]
                    IN inv' = IF outcome # "ok" THEN Failed(rec2, "ClientError") ELSE rec2

LogFood == LogFoodWith(TimeArgs)

(***************************************************************************)
(* The CLI: any command may be run at any time.                            *)
(***************************************************************************)
\* The configuration directory as the first invocation finds it: each file
\* missing, or left behind by something else and not parsable.
Init ==
    /\ config \in {Absent, Garbage}
    /\ cache \in {Absent, Garbage}
    /\ inv = Idle

\* The user removes config.json (there is no logout command); no command runs.
RemoveCredential ==
    /\ config.kind = "json"
    /\ config' = Absent
    /\ inv' = Idle
    /\ UNCHANGED cache

Next ==
    \/ Login
    \/ Profile
    \/ Goals
    \/ Nutrition
    \/ FoodLog
    \/ Weight
    \/ Steps
    \/ LogFood
    \/ SearchFood
    \/ LogSearchedFood
    \/ DeleteFood
    \/ DeleteWeight
    \/ SyncDay
    \/ LogWeight
    \/ LogNutrition
    \/ RemoveCredential

Spec == Init /\ [][Next]_vars

(***************************************************************************)
(* make_logged_at on its own: every date, every --time string of at most   *)
(* MaxTimeLen characters, every reading of the clock.                      *)
(***************************************************************************)
TimeStrings == SeqsUpTo(Alphabet, MaxTimeLen)

InitTime ==
    /\ config = Absent
    /\ cache = Absent
    /\ inv \in {[Started("make_logged_at") EXCEPT
                    !.err = "Pending", !.date = Some(d), !.time = Some(t), !.now = Some(n)]
                : d \in Dates, t \in {None} \cup {Some(ts) : ts \in TimeStrings}, n \in Nows}

MakeLoggedAt ==
    /\ inv.cmd = "make_logged_at"
    /\ inv.err = "Pending"
    /\ LET at == make_logged_at(inv.date[1], inv.time[1], inv.now[1])
       IN inv' = [inv EXCEPT !.err = at.err, !.logged_at = at.val]
    /\ UNCHANGED <<config, cache>>

NextTime == MakeLoggedAt

SpecTime == InitTime /\ [][NextTime]_vars

(***************************************************************************)
(* One invocation of log-food or log-searched-food, from every content the *)
(* two files can have, with every short --time string.                     *)
(***************************************************************************)
\* longest --time string given to the two commands, the three below apart
MaxArgTimeLen == 3

TimeArgsWide ==
    {None} \cup {Some(t) : t \in SeqsUpTo(Alphabet, MaxArgTimeLen)}
    \cup {Some(<<"2", "7", ":", "1">>), Some(<<"1", ":", "7", "2">>),
          Some(<<"1", ":", "2", ":">>)}

\* what config.json can hold: nothing, text that does not parse, or what
\* login saved
ConfigFiles == {Absent, Garbage} \cup {save_config([refresh_token |-> t]) : t \in Tokens}

\* what last-search.json can hold: nothing, text that does not parse, or what
\* search-food saved (never an empty list)
CacheFiles ==
    {Absent, Garbage} \cup {save_search_cache(r) : r \in {l \in ResultLists : Len(l) > 0}}

InitLog ==
    /\ config \in ConfigFiles
    /\ cache \in CacheFiles
    /\ inv = Idle

LogFoodOnce == inv = Idle /\ LogFoodWith(TimeArgsWide)

LogSearchedFoodOnce == inv = Idle /\ LogSearchedFoodWith(TimeArgsWide)

NextLog == LogFoodOnce \/ LogSearchedFoodOnce

SpecLog == InitLog /\ [][NextLog]_vars

\* the files of every state are among those one invocation is started from
FilesAreKnown == config \in ConfigFiles /\ cache \in CacheFiles

(***************************************************************************)
(* Properties.                                                             *)
(***************************************************************************)
IsLogSearched == inv.cmd = "log-searched-food"

\* the list log-searched-food read from the cache file (it leaves the file alone)
CachedList == cache.doc[1]

\* no request left the process during the invocation
NoNetworkCall == inv.net = <<>>

\* a * b = c as rationals
ProductIs(a, b, c) == a.n * b.n * c.d = c.n * a.d * b.d

\* C1: log-searched-food checks the 1-based food index against the cached
\* list before anything is sent: index 0 or an index beyond the list fails
\* with the invalid-index error and no request, and an index i within the
\* list resolves the i-th cached result.
C1_FoodIndexValidated ==
    (IsLogSearched /\ inv.food_index # None) =>
        LET i == inv.food_index[1]
            n == Len(CachedList)
        IN /\ (i = 0 \/ i > n) => (inv.err = "InvalidIndex" /\ NoNetworkCall /\ inv.food = None)
           /\ (1 <= i /\ i <= n) => (inv.err # "InvalidIndex" /\ inv.food = Some(CachedList[i]))

C1_Witness ==
    /\ IsLogSearched
    /\ cache.kind = "json"
    /\ Len(CachedList) = 2
    /\ inv.food_index = Some(3)
    /\ inv.err = "InvalidIndex"
    /\ NoNetworkCall

\* C2: serving index 1 always selects a serving: the food's default serving
\* if it has one, whatever the servings list holds; else the first entry of
\* the list; else a synthetic serving of amount 1 and 100 grams.
C2_ServingOneResolves ==
    (IsLogSearched /\ inv.serving = Some(1)) =>
        LET food == inv.food[1]
        IN /\ inv.err \notin {"InvalidServing", "Panic"}
           /\ inv.food_serving # None
           /\ food.default_serving # None => inv.food_serving = food.default_serving
           /\ (food.default_serving = None /\ Len(food.servings) > 0)
                => inv.food_serving = Some(food.servings[1])
           /\ (food.default_serving = None /\ Len(food.servings) = 0)
                => /\ inv.food_serving[1].amount = [n |-> 1, d |-> 1]
                   /\ inv.food_serving[1].gram_weight = [n |-> 100, d |-> 1]

C2_Witness ==
    /\ IsLogSearched
    /\ inv.serving = Some(1)
    /\ inv.food # None
    /\ inv.food[1].default_serving # None
    /\ Len(inv.food[1].servings) > 0
    /\ inv.food[1].servings[1] # inv.food[1].default_serving[1]
    /\ inv.food_serving = inv.food[1].default_serving

\* C3: serving index k >= 2 on a food with m listed servings selects the
\* list entry at zero-based position k-1 when k <= m, and when k > m fails
\* with the invalid-serving error before any request is sent.
C3_ServingIndexFromList ==
    (IsLogSearched /\ inv.serving # None /\ inv.serving[1] >= 2) =>
        LET k == inv.serving[1]
            servings == inv.food[1].servings
            m == Len(servings)
        IN /\ k <= m => (inv.err # "InvalidServing" /\ inv.food_serving = Some(servings[(k - 1) + 1]))
           /\ k > m => (inv.err = "InvalidServing" /\ NoNetworkCall /\ inv.food_serving = None)

C3_Witness ==
    /\ IsLogSearched
    /\ inv.serving = Some(2)
    /\ inv.food # None
    /\ Len(inv.food[1].servings) = 2
    /\ inv.food_serving = Some(inv.food[1].servings[2])
    /\ inv.err = ""

\* C4: the scale factor is (gram weight / 100) x quantity, and each of the
\* four macros the command reports is the per-100g value times that factor;
\* with 100 grams and quantity 1 they are the per-100g values themselves.
C4_MacrosScaled ==
    (IsLogSearched /\ inv.scale # None) =>
        LET food == inv.food[1]
            G == inv.food_serving[1].gram_weight
            Q == inv.quantity[1]
            scale == inv.scale[1]
        IN /\ scale.n * G.d * Q.d * 100 = G.n * Q.n * scale.d
           /\ inv.printed # None =>
                LET m == inv.printed[1]
                IN /\ ProductIs(food.calories_per_100g, scale, m.calories)
                   /\ ProductIs(food.protein_per_100g, scale, m.protein)
                   /\ ProductIs(food.carbs_per_100g, scale, m.carbs)
                   /\ ProductIs(food.fat_per_100g, scale, m.fat)
                   /\ (G = [n |-> 100, d |-> 1] /\ Q = [n |-> 1, d |-> 1]) =>
                        /\ m.calories = food.calories_per_100g
                        /\ m.protein = food.protein_per_100g
                        /\ m.carbs = food.carbs_per_100g
                        /\ m.fat = food.fat_per_100g

C4_Witness ==
    /\ IsLogSearched
    /\ inv.err = ""
    /\ inv.printed # None
    /\ inv.food_serving[1].gram_weight = [n |-> 150, d |-> 1]
    /\ inv.quantity = Some([n |-> 3, d |-> 2])
    /\ inv.food[1].calories_per_100g = [n |-> 200, d |-> 1]
    /\ inv.printed[1].calories = [n |-> 450, d |-> 1]
    /\ inv.printed[1].protein = [n |-> 9, d |-> 1]

\* C5: a chosen serving of gram weight 0 makes log-searched-food fail
\* without writing an entry.
C5_ZeroGramWeightRejected ==
    (IsLogSearched /\ inv.food_serving # None
        /\ inv.food_serving[1].gram_weight = [n |-> 0, d |-> 1]) =>
        (inv.err # "" /\ \A i \in 1..Len(inv.net) : ~inv.net[i].write)

IsRangeCommand == inv.cmd \in {"nutrition", "weight", "steps"}

\* C6: nutrition, weight and steps reject a range whose end is before its
\* start without sending a request, and succeed with an empty sequence for
\* a valid range the backend holds no records for.
C6_ReversedRangeRejected ==
    (IsRangeCommand /\ inv.range # None) =>
        LET s == inv.range[1][1]
            e == inv.range[1][2]
        IN /\ e < s => (inv.err # "" /\ NoNetworkCall)
           /\ (s <= e /\ inv.err = "" /\ (s..e) \cap DataDates = {})
                => inv.entries = Some(<<>>)

IsRejectedLogin ==
    /\ inv.cmd = "login"
    /\ inv.response # None
    /\ ~(inv.response[1].status >= 200 /\ inv.response[1].status < 300)

\* C7 as stated: a login the identity provider answers with a non-success
\* status fails with an error that carries the response body, and leaves the
\* credential file as it was.
C7_RejectedLoginCarriesBody ==
    [][IsRejectedLogin' =>
        /\ inv'.err = "LoginFailed"
        /\ inv'.body = Some(inv'.response[1].body)
        /\ config' = config]_vars

\* C7, amended: a login the identity provider answers with a non-success
\* status fails with an error that carries the response body when the body
\* can be read and an empty body when it cannot, and leaves the credential
\* file as it was.
C7_RejectedLoginKeepsCredential ==
    [][IsRejectedLogin' =>
        /\ inv'.err = "LoginFailed"
        /\ inv'.response[1].readable => inv'.body = Some(inv'.response[1].body)
        /\ ~inv'.response[1].readable => inv'.body = Some("")
        /\ config' = config]_vars

C7_Witness ==
    /\ IsRejectedLogin
    /\ inv.err = "LoginFailed"
    /\ inv.response[1].readable
    /\ inv.body = Some("INVALID_PASSWORD")
    /\ config.kind = "json"

\* C8: a log-searched-food that follows a successful search-food resolves its
\* food index against the result list of that search: an index within the
\* list gives its entry, any other index is invalid.
C8_CacheIsLastSearch ==
    [][(inv.cmd = "search-food" /\ inv.err = "" /\ inv'.cmd = "log-searched-food"
            /\ inv'.food_index # None) =>
        LET results == inv.entries[1]
            i == inv'.food_index[1]
        IN /\ (1 <= i /\ i <= Len(results)) => inv'.food = Some(results[i])
           /\ (i = 0 \/ i > Len(results)) => inv'.err = "InvalidIndex"]_vars

IsTimeGiven(hs, ms) == inv.time[1] = Some(hs \o <<":">> \o ms)

\* the number a string of one or two digits writes
Numeral(ds) ==
    IF Len(ds) = 1 THEN DigitVal(ds[1]) ELSE 10 * DigitVal(ds[1]) + DigitVal(ds[2])

Numerals == {ds \in SeqsUpTo(Digits, 2) : Len(ds) > 0}

\* the local date-time exists exactly once in the zone
ExistsOnce(date, hour) ==
    ~(date = 0 \/ (date = 1 /\ hour = 2) \/ (date = 2 /\ hour = 12))

LocalAt(date, hour, minute) ==
    [date |-> date, hour |-> hour, minute |-> minute, second |-> 0]

IsUnauthenticated == inv'.err \in {"NotLoggedIn", "InvalidConfig"}

\* the step is a command other than login
IsOtherCommand == inv'.cmd \notin {"", "login"}

\* C10 as stated: with the credential file absent or unparsable, every
\* command other than login fails with the not-logged-in error and sends no
\* request; no command other than login writes the credential file.
C10_NotLoggedInFirst ==
    [][IsOtherCommand =>
        /\ config.kind # "json" => (IsUnauthenticated /\ inv'.net = <<>>)
        /\ config' = config]_vars

\* C10, amended: with the credential file absent or unparsable, every
\* command other than login fails and sends no request; the error is that of
\* loading the credential (not logged in for a file that cannot be read,
\* invalid config file for one that does not parse), except that
\* log-searched-food first reports a search cache that is missing or does not
\* parse, an invalid food index, an invalid serving index, or aborts on
\* serving index 0.  No command other than login writes the credential file.
C10_FailsWithoutCredential ==
    [][IsOtherCommand =>
        /\ config.kind # "json" =>
            /\ inv'.net = <<>>
            /\ inv'.err # ""
            /\ \/ inv'.err = (IF config.kind = "absent" THEN "NotLoggedIn" ELSE "InvalidConfig")
               \/ /\ inv'.cmd = "log-searched-food"
                  /\ inv'.err \in {"NoSearchCache", "InvalidSearchCache", "InvalidIndex",
                                   "InvalidServing", "Panic"}
        /\ config' = config]_vars

C10_Witness ==
    /\ IsLogSearched
    /\ config.kind = "absent"
    /\ inv.food_serving # None
    /\ inv.err = "NotLoggedIn"
    /\ NoNetworkCall

IsLogCommand == inv'.cmd \in {"log-food", "log-searched-food"}

\* the positions of the colons of a --time string
ColonsOf(t) == {i \in 1..Len(t) : t[i] = ":"}

\* the number a string of digits writes, read from its last digit
RECURSIVE ValueOf(_)
ValueOf(ds) ==
    IF Len(ds) = 0 THEN 0
    ELSE 10 * ValueOf(SubSeq(ds, 1, Len(ds) - 1)) + DigitVal(ds[Len(ds)])

\* the digits of a field, a leading plus sign dropped
Unsigned(f) == IF Len(f) > 0 /\ f[1] = "+" THEN SubSeq(f, 2, Len(f)) ELSE f

\* a field that writes a number: one or more digits, after an optional plus sign
IsNumericField(f) == Len(Unsigned(f)) > 0 /\ \A i \in 1..Len(Unsigned(f)) : Unsigned(f)[i] \in Digits

\* a --time value that is not two colon-separated numeric fields naming a
\* time of day
IsMalformedTime(t) ==
    \/ Cardinality(ColonsOf(t)) # 1
    \/ LET p == CHOOSE i \in ColonsOf(t) : TRUE
           hh == SubSeq(t, 1, p - 1)
           mm == SubSeq(t, p + 1, Len(t))
       IN \/ ~IsNumericField(hh)
          \/ ~IsNumericField(mm)
          \/ ValueOf(Unsigned(hh)) >= 24
          \/ ValueOf(Unsigned(mm)) >= 60

\* C11: log-food and log-searched-food given a malformed --time fail without
\* sending any request and leave the credential file and the search cache as
\* they were: the invocation either fails before it reads --time (no
\* credential, no usable cache, a bad index), or fails reading it.
C11_MalformedTimeFailsFast ==
    [][(IsLogCommand /\ (inv'.time = None \/ (inv'.time[1] # None
                                              /\ IsMalformedTime(inv'.time[1][1])))) =>
        /\ inv'.err # ""
        /\ inv'.net = <<>>
        /\ inv'.logged_at = None
        /\ config' = config
        /\ cache' = cache]_vars

C11_Witness ==
    /\ IsLogSearched
    /\ config.kind = "json"
    /\ inv.food_serving # None
    /\ inv.time = Some(Some(<<"2", "7", ":", "1">>))
    /\ inv.err = "InvalidTime"
    /\ NoNetworkCall

\* C12: with a valid food index, serving index 0 selects no serving and sends
\* nothing: serving - 1 aborts the command or wraps to the largest usize,
\* which no servings list is longer than, so the invalid-serving error
\* follows.
C12_ServingZeroRejected ==
    (IsLogSearched /\ inv.serving = Some(0)) =>
        /\ inv.food # None
        /\ inv.err \in {"Panic", "InvalidServing"}
        /\ inv.food_serving = None
        /\ NoNetworkCall

C12_Witness ==
    /\ IsLogSearched
    /\ inv.serving = Some(0)
    /\ Len(inv.food[1].servings) = 2
    /\ inv.err = "InvalidServing"
    /\ NoNetworkCall

====
